---- MODULE Spec2Model ----
(***************************************************************************)
(* The account-sequenced email poller of                                   *)
(* backend/app/tools/email_fetchers/main_poller.py: one caller thread      *)
(* driving EmailPoller's public methods and one worker thread running      *)
(* EmailPoller._worker_run, interleaved at the granularity of the reads    *)
(* and writes of the shared fields.                                        *)
(***************************************************************************)
EXTENDS Integers, Sequences, FiniteSets, TLC

(***************************************************************************)
(* Bounds of the model.                                                    *)
(***************************************************************************)
\* The PollingConfig.max_poll_count the poller is constructed with.
MaxPollCount == 2
\* The longest list one fetch_emails() call returns.
MaxFetchLen == 2
\* The number of next() calls made between two reset() calls.
MaxNextCalls == 4

\* The number of new messages the mailboxes deliver in the life of a poller.
MaxTotalMessages == 2

\* The provider message ids a fetcher may return.
Ids == {"a", "b"}

\* The keys of FETCHER_MAPPING.
FETCHER_MAPPING == {"imap", "gmail_api", "outlook_graph", "outlook_imap"}

\* An account descriptor of the configuration file.  polling_config is the
\* optional override: <<>> when the key max_poll_count is absent, <<n>> when set.
Account(id, enabled, type, override) ==
    [id |-> id, enabled |-> enabled, type |-> type, polling_config |-> override]

\* An account descriptor that has no "enabled" key.
AccountNoFlag(id, type, override) ==
    [id |-> id, type |-> type, polling_config |-> override]

\* d[k] = v on a dict d.
DictSet(d, k, v) == [x \in DOMAIN d \cup {k} |-> IF x = k THEN v ELSE d[x]]

\* The value of the worker's local current_account while it polls nothing.
NoAccount == Account("-", FALSE, "-", <<>>)

\* The configuration files the poller is constructed from.  The keys "config",
\* "email_address" and "fetch_criteria" are optional in a descriptor.
Configs ==
    { <<Account("acc1", TRUE, "imap", <<>>),
        Account("acc2", TRUE, "gmail_api", <<1>>)>>,
      <<Account("acc1", FALSE, "imap", <<>>),
        Account("acc2", TRUE, "pop3", <<>>),
        DictSet(Account("acc3", TRUE, "outlook_imap", <<>>), "fetch_criteria",
                [mark_as_read_after_fetch |-> TRUE])>>,
      <<DictSet(DictSet(Account("acc1", TRUE, "outlook_graph", <<0>>),
                        "email_address", "acc1@example.com"),
                "config", [client_id |-> "id1"])>>,
      <<AccountNoFlag("acc1", "imap", <<>>)>> }

\* The configuration file of the runs checked under thread scheduling: one
\* account polled twice with a wait in between and marking what it fetched
\* as read, one of an unknown type.
ScheduledConfig ==
    <<DictSet(Account("acc1", TRUE, "imap", <<2>>), "fetch_criteria",
              [mark_as_read_after_fetch |-> TRUE]),
      Account("acc2", TRUE, "pop3", <<>>)>>

\* Python's None as the object a call returns.
None == [id |-> "None"]

VARIABLES
    accounts_config,        \* self.accounts_config["accounts"]
    polling_config,         \* self.polling_config.max_poll_count
    enabled_accounts,       \* self.enabled_accounts
    current_account_index,  \* self.current_account_index
    queue,                  \* self.message_queue._queue
    total_messages,         \* self.message_queue._stats['total_messages']
    last_message_time,      \* _stats['last_message_time']: 0 for None, else the
                            \* time of the last put_message, counted in puts
    processed_email_ids,    \* self._processed_email_ids
    stop_event,             \* self._stop_event
    processing_event,       \* self._processing_event
    is_processing,          \* self._is_processing
    worker_lock,            \* self._worker_lock: "free", "worker" or "caller"
    wpc,                    \* the worker thread's position in _worker_run
    current_account,        \* _worker_run's local current_account
    poll_count,             \* _poll_account's local poll_count
    new_emails,             \* _poll_account's local new_emails, while its for loop runs
    emails_done,            \* how many of new_emails the for loop has taken
    email_ids_to_mark_read, \* _poll_account's local email_ids_to_mark_read
    connected,              \* the fetcher of the attempt is connected
    calls,                  \* the calls the step just taken made on the fetcher
                            \* class and its instance, in order
    attempt_puts,           \* history: the ids this attempt has put on the queue
    waits,                  \* history: the waits between attempts begun in this cycle
    cpc,                    \* the caller thread's position
    last_message,           \* get_last_message's local last_message
    glm_start,              \* history: the queue and total_messages as the running
                            \* get_last_message() found them
    cret,                   \* what the step just taken returned to the caller:
                            \* the result of the call it ended, "none" otherwise
    cval,                   \* the object returned with it (a message, an account)
    next_calls,             \* history: next() calls finished since the last reset()
    cycle,                  \* history: per enabled account, the progress of the
                            \* poll a next() asked for: "no", "selected", "attempted"
    epoch_puts,             \* history: per id, put_message calls since the last reset()
    fails,                  \* history: the attempts of this cycle that raised
    live_workers,           \* the worker threads spawned and not terminated
    next_since_start,       \* history: a next() has returned true since the
                            \* last spawn of a worker thread
    dpc,                    \* the position of main() in its driver loop, "off"
                            \* when the caller is not that driver
    attempted               \* history: under the driver, the ids of the accounts
                            \* that had a fetch attempt, in the order of their first

vars == <<accounts_config, polling_config, enabled_accounts, current_account_index,
          queue, processed_email_ids, stop_event, processing_event, is_processing,
          worker_lock, wpc, current_account, poll_count, new_emails, emails_done,
          waits, cpc, cret, next_calls, cycle, epoch_puts, fails,
          live_workers, next_since_start, cval, connected, total_messages,
          last_message_time, last_message, glm_start,
          email_ids_to_mark_read, attempt_puts, calls, dpc, attempted>>

(***************************************************************************)
(* Helpers.                                                                *)
(***************************************************************************)
\* acc.get("enabled", False): a missing flag counts as false.
IsEnabledUnlessFalse(acc) == "enabled" \notin DOMAIN acc \/ acc.enabled
IsEnabled(acc) == "enabled" \in DOMAIN acc /\ acc.enabled

\* EmailPoller._get_enabled_accounts: the accounts whose enabled flag is set,
\* in configuration order.
RECURSIVE SelectEnabled(_)
SelectEnabled(accs) ==
    IF accs = <<>> THEN <<>>
    ELSE IF IsEnabled(Head(accs))
         THEN <<Head(accs)>> \o SelectEnabled(Tail(accs))
         ELSE SelectEnabled(Tail(accs))

\* poll_config.get("max_poll_count", self.polling_config.max_poll_count)
EffectiveMaxPollCount(acc, dflt) ==
    IF Len(acc.polling_config) > 0 THEN acc.polling_config[1] ELSE dflt

\* max_emails of a cycle: PollingConfig.max_emails_per_poll, the longest list
\* a fetcher is asked for.
max_emails == MaxFetchLen

\* fetcher_config["email_address"] = account_config["email_address"], done
\* when the descriptor has the address and its "config" dict has not: the
\* dict is the descriptor's own.
ConfigWithAddress(acc) ==
    IF /\ "config" \in DOMAIN acc
       /\ "email_address" \in DOMAIN acc
       /\ "email_address" \notin DOMAIN acc.config
    THEN [acc EXCEPT !.config = DictSet(@, "email_address", acc.email_address)]
    ELSE acc

\* fetch_criteria["max_emails"] = max_emails: fetch_criteria is the
\* descriptor's own dict when it has the key, a fresh one otherwise.
CriteriaWithMax(acc) ==
    IF "fetch_criteria" \in DOMAIN acc
    THEN [acc EXCEPT !.fetch_criteria = DictSet(@, "max_emails", max_emails)]
    ELSE acc

\* The list accs after the descriptor object of account id has become new:
\* accounts_config, enabled_accounts and the worker's current_account hold
\* the same dict objects.
Written(accs, id, new) ==
    [i \in DOMAIN accs |-> IF accs[i].id = id THEN new ELSE accs[i]]

\* fetch_criteria.get("mark_as_read_after_fetch", False) of a descriptor.
MarkAsReadFlag(acc) ==
    /\ "fetch_criteria" \in DOMAIN acc
    /\ "mark_as_read_after_fetch" \in DOMAIN acc.fetch_criteria
    /\ acc.fetch_criteria.mark_as_read_after_fetch

\* One call on the fetcher: the method, its list argument (<<>> when it has
\* none), and whether it returned (ok) or raised.
Call(op, arg, ok) == [op |-> op, arg |-> arg, ok |-> ok]

\* max_poll_count of the cycle the worker runs.
max_poll_count == EffectiveMaxPollCount(current_account, polling_config)

\* Thread.is_alive() of self._worker_thread (false too when it is None).
WorkerAliveNever == FALSE
WorkerAlive == wpc \notin {"none", "dead"}

\* All sequences over S of length at most n.
SeqsUpTo(S, n) == UNION { [1..k -> S] : k \in 0..n }

\* What one fetch_emails() call may return: the ids of the returned messages.
FetchResults == SeqsUpTo(Ids, MaxFetchLen)

\* An EmailMessage as a fetcher of account acc builds it.
EmailMessage(id, acc) == [id |-> id, account_email |-> acc.id]

\* The position of account acc in enabled_accounts (ids are unique), from 1.
PositionOf(acc) ==
    CHOOSE i \in 1..Len(enabled_accounts) : enabled_accounts[i].id = acc.id

\* The history of requested polls with every entry "no".
NoCycles == [i \in 1..Len(enabled_accounts) |-> "no"]

\* threading.Event.set() on _processing_event as the worker sees it: a worker
\* blocked in wait() is notified and returns from it, whatever is cleared later.
NotifyProcessingIgnored(pc) == pc
NotifyProcessing(pc) == IF pc = "blocked" THEN "woke" ELSE pc

\* threading.Event.set() on _stop_event as the worker sees it.
NotifyStop(pc) == IF pc = "pblocked" THEN "pnotified" ELSE pc

\* main(): where the driver is once the call it made has returned result.
\* pc is the caller's position after the step: the call has returned when it
\* is "idle".  start() is followed by time.sleep(3); wait_for_completion(10)
\* returning False by the drain of the queue, True by next(); get_message()
\* returning None ends the drain; next() returning False ends the loop, and
\* stop() follows in the finally clause ("stop" when the loop ended, "stop_exc"
\* when an exception left it).
DriverAfter(d, pc, result) ==
    IF pc # "idle" THEN d
    ELSE CASE d = "start" -> "sleep"
           [] d = "wait"  -> IF result = "wait_true" THEN "next" ELSE "drain"
           [] d = "drain" -> IF result = "message" THEN "drain" ELSE "wait"
           [] d = "next"  -> IF result = "next_true" THEN "wait" ELSE "stop"
           [] d = "stop"  -> "done"
           [] d = "stop_exc" -> "done_exc"
           [] OTHER -> d

\* The history of attempted accounts after an attempt for current_account.
AttemptedWith(acc) ==
    IF dpc = "off" \/ \E i \in 1..Len(attempted) : attempted[i] = acc.id
    THEN attempted
    ELSE Append(attempted, acc.id)

(***************************************************************************)
(* Init: the state EmailPoller.__init__ leaves.                            *)
(***************************************************************************)
InitWith(configs, driver) ==
    /\ accounts_config \in configs
    /\ dpc = driver
    /\ attempted = <<>>
    /\ polling_config = MaxPollCount
    /\ enabled_accounts = SelectEnabled(accounts_config)
    /\ current_account_index = -1
    /\ queue = <<>>
    /\ total_messages = 0
    /\ last_message_time = 0
    /\ processed_email_ids = {}
    /\ stop_event = FALSE
    /\ processing_event = FALSE
    /\ is_processing = FALSE
    /\ worker_lock = "free"
    /\ wpc = "none"
    /\ current_account = NoAccount
    /\ poll_count = 0
    /\ new_emails = <<>>
    /\ emails_done = 0
    /\ email_ids_to_mark_read = <<>>
    /\ connected = FALSE
    /\ calls = <<>>
    /\ attempt_puts = <<>>
    /\ waits = 0
    /\ cpc = "idle"
    /\ cret = "none"
    /\ cval = None
    /\ next_calls = 0
    /\ cycle = [i \in 1..Len(SelectEnabled(accounts_config)) |-> "no"]
    /\ epoch_puts = [id \in Ids |-> 0]
    /\ fails = 0
    /\ live_workers = 0
    /\ next_since_start = FALSE
    /\ last_message = None
    /\ glm_start = <<<<>>, 0>>

\* The poller constructed for callers that call its methods in any order.
InitFrom(configs) == InitWith(configs, "off")

Init == InitFrom(Configs)

(***************************************************************************)
(* The worker thread: _worker_run and _poll_account.                       *)
(***************************************************************************)
\* while not self._stop_event.is_set():
WorkerLoopCheck ==
    /\ wpc = "loop"
    /\ wpc' = IF stop_event THEN "dead" ELSE "wait"
    /\ live_workers' = IF stop_event THEN live_workers - 1 ELSE live_workers
    /\ cret' = "none"
    /\ cval' = None
    /\ calls' = <<>>
    /\ UNCHANGED <<accounts_config, polling_config, enabled_accounts,
                   current_account_index, queue, processed_email_ids,
                   stop_event, processing_event, is_processing, worker_lock,
                   current_account, poll_count, new_emails, emails_done,
                   waits, cpc, next_calls, cycle, epoch_puts, fails,
                   next_since_start, connected, total_messages,
                   last_message_time, last_message, glm_start,
                   email_ids_to_mark_read, attempt_puts, attempted>>
    /\ dpc' = dpc

\* self._processing_event.wait(): returns at once when the event is set,
\* blocks otherwise.
WorkerWaitSignal ==
    /\ wpc = "wait"
    /\ wpc' = IF processing_event THEN "woke" ELSE "blocked"
    /\ cret' = "none"
    /\ cval' = None
    /\ calls' = <<>>
    /\ UNCHANGED <<accounts_config, polling_config, enabled_accounts,
                   current_account_index, queue, processed_email_ids,
                   stop_event, processing_event, is_processing, worker_lock,
                   current_account, poll_count, new_emails, emails_done,
                   waits, cpc, next_calls, cycle, epoch_puts, fails,
                   live_workers, next_since_start, connected, total_messages,
                   last_message_time, last_message, glm_start,
                   email_ids_to_mark_read, attempt_puts, attempted>>
    /\ dpc' = dpc

\* if self._stop_event.is_set(): break
WorkerCheckStop ==
    /\ wpc = "woke"
    /\ wpc' = IF stop_event THEN "dead" ELSE "lock"
    /\ live_workers' = IF stop_event THEN live_workers - 1 ELSE live_workers
    /\ cret' = "none"
    /\ cval' = None
    /\ calls' = <<>>
    /\ UNCHANGED <<accounts_config, polling_config, enabled_accounts,
                   current_account_index, queue, processed_email_ids,
                   stop_event, processing_event, is_processing, worker_lock,
                   current_account, poll_count, new_emails, emails_done,
                   waits, cpc, next_calls, cycle, epoch_puts, fails,
                   next_since_start, connected, total_messages,
                   last_message_time, last_message, glm_start,
                   email_ids_to_mark_read, attempt_puts, attempted>>
    /\ dpc' = dpc

\* with self._worker_lock:
WorkerAcquire ==
    /\ wpc = "lock"
    /\ worker_lock = "free"
    /\ worker_lock' = "worker"
    /\ wpc' = "locked"
    /\ cret' = "none"
    /\ cval' = None
    /\ calls' = <<>>
    /\ UNCHANGED <<accounts_config, polling_config, enabled_accounts,
                   current_account_index, queue, processed_email_ids,
                   stop_event, processing_event, is_processing,
                   current_account, poll_count, new_emails, emails_done,
                   waits, cpc, next_calls, cycle, epoch_puts, fails,
                   live_workers, next_since_start, connected, total_messages,
                   last_message_time, last_message, glm_start,
                   email_ids_to_mark_read, attempt_puts, attempted>>
    /\ dpc' = dpc

\* The value the flag gets when the cursor names no account.
FlagNoAccountSet == TRUE
FlagNoAccount == FALSE

\* The test of current_account_index under the lock: a valid index starts the
\* poll of that account, any other clears the flag and the signal.
WorkerSelect ==
    /\ wpc = "locked"
    /\ IF current_account_index >= 0 /\ current_account_index < Len(enabled_accounts)
       THEN /\ current_account' = enabled_accounts[current_account_index + 1]
            /\ is_processing' = TRUE
            /\ wpc' = "poll"
            /\ UNCHANGED <<processing_event, worker_lock>>
       ELSE /\ is_processing' = FlagNoAccount
            /\ processing_event' = FALSE
            /\ worker_lock' = "free"
            /\ wpc' = "loop"
            /\ UNCHANGED current_account
    /\ cret' = "none"
    /\ cval' = None
    /\ calls' = <<>>
    /\ UNCHANGED <<accounts_config, polling_config, enabled_accounts,
                   current_account_index, queue, processed_email_ids,
                   stop_event, poll_count, new_emails, emails_done, waits,
                   cpc, next_calls, cycle, epoch_puts, fails, live_workers,
                   next_since_start, connected, total_messages,
                   last_message_time, last_message, glm_start,
                   email_ids_to_mark_read, attempt_puts, attempted>>
    /\ dpc' = dpc

\* FetcherClass = FETCHER_MAPPING.get(fetcher_type_name); "if not FetcherClass"
\* is the negation of this.
KnownTypeAlways(acc) == TRUE
KnownType(acc) == acc.type \in FETCHER_MAPPING

\* _poll_account up to its loop: the reads of the descriptor, the address
\* written into its config, the fetcher class lookup, poll_count = 0.
PollEnter ==
    /\ wpc = "poll"
    /\ wpc' = IF ~KnownType(current_account) THEN "finally" ELSE "while"
    /\ current_account' = ConfigWithAddress(current_account)
    /\ accounts_config' =
          Written(accounts_config, current_account.id, ConfigWithAddress(current_account))
    /\ enabled_accounts' =
          Written(enabled_accounts, current_account.id, ConfigWithAddress(current_account))
    /\ poll_count' = 0
    /\ waits' = 0
    /\ fails' = 0
    /\ cret' = "none"
    /\ cval' = None
    /\ calls' = <<>>
    /\ UNCHANGED <<polling_config, current_account_index, queue,
                   processed_email_ids, stop_event, processing_event,
                   is_processing, worker_lock, new_emails, emails_done, cpc,
                   next_calls, cycle, epoch_puts, live_workers,
                   next_since_start, connected, total_messages,
                   last_message_time, last_message, glm_start,
                   email_ids_to_mark_read, attempt_puts, attempted>>
    /\ dpc' = dpc

\* The loop test: not self._stop_event.is_set() and poll_count < max_poll_count.
LoopContinuesIgnoringStop(stopped, count, max) == count < max
LoopContinues(stopped, count, max) == ~stopped /\ count < max

\* while not self._stop_event.is_set() and poll_count < max_poll_count:
PollWhile ==
    /\ wpc = "while"
    /\ wpc' = IF LoopContinues(stop_event, poll_count, max_poll_count)
              THEN "attempt" ELSE "finally"
    /\ cret' = "none"
    /\ cval' = None
    /\ calls' = <<>>
    /\ UNCHANGED <<accounts_config, polling_config, enabled_accounts,
                   current_account_index, queue, processed_email_ids,
                   stop_event, processing_event, is_processing, worker_lock,
                   current_account, poll_count, new_emails, emails_done,
                   waits, cpc, next_calls, cycle, epoch_puts, fails,
                   live_workers, next_since_start, connected, total_messages,
                   last_message_time, last_message, glm_start,
                   email_ids_to_mark_read, attempt_puts, attempted>>
    /\ dpc' = dpc

\* One attempt made for the account the worker polls: the history of the poll
\* next() asked for goes from "selected" to "attempted".
Attempted ==
    [cycle EXCEPT ![PositionOf(current_account)] =
        IF @ = "selected" THEN "attempted" ELSE @]

\* The end of "with FetcherClass(fetcher_config) as fetcher": __exit__ calls
\* disconnect(), whether the block ended normally or by an exception.
ConnectionLeftOpen == TRUE
ConnectedAfterWith == FALSE

\* The calls __exit__ makes on the fetcher.
WithExitSilent == <<>>
WithExit == <<Call("disconnect", <<>>, TRUE)>>

\* The calls that open the with block: the fetcher is constructed, __enter__
\* calls connect().
WithEnter(ok) == <<Call("init", <<>>, TRUE), Call("connect", <<>>, ok)>>

\* One attempt whose connect() and fetch_emails() return: max_emails is
\* written into fetch_criteria, new_emails is bound; an empty list ends the
\* with block at once.
AttemptFetch ==
    /\ wpc = "attempt"
    /\ current_account' = CriteriaWithMax(current_account)
    /\ accounts_config' =
          Written(accounts_config, current_account.id, CriteriaWithMax(current_account))
    /\ enabled_accounts' =
          Written(enabled_accounts, current_account.id, CriteriaWithMax(current_account))
    /\ \E ids \in FetchResults :
          /\ Cardinality({ids[i] : i \in 1..Len(ids)} \ processed_email_ids)
                <= MaxTotalMessages - total_messages
          /\ new_emails' = [i \in 1..Len(ids) |-> EmailMessage(ids[i], current_account)]
          /\ wpc' = IF ids = <<>> THEN "inc" ELSE "process"
          /\ connected' = IF ids = <<>> THEN ConnectedAfterWith ELSE TRUE
          /\ calls' = WithEnter(TRUE) \o <<Call("fetch_emails", <<>>, TRUE)>>
                        \o (IF ids = <<>> THEN WithExit ELSE <<>>)
    /\ emails_done' = 0
    /\ email_ids_to_mark_read' = <<>>
    /\ attempt_puts' = <<>>
    /\ cycle' = Attempted
    /\ attempted' = AttemptedWith(current_account)
    /\ cret' = "none"
    /\ cval' = None
    /\ UNCHANGED <<polling_config, current_account_index, queue,
                   processed_email_ids, stop_event, processing_event,
                   is_processing, worker_lock, poll_count, waits, cpc,
                   next_calls, epoch_puts, fails, live_workers,
                   next_since_start, total_messages, last_message_time,
                   last_message, glm_start>>
    /\ dpc' = dpc

\* Where an exception of connect() or fetch_emails() takes the worker: the
\* except clause inside the loop, then poll_count += 1.
RaiseLeavesLoop == "finally"
RaiseLeadsTo == "inc"

\* One attempt whose connect() (in_fetch false) or fetch_emails() (in_fetch
\* true) raises: except Exception.  fetch_emails() is called with max_emails
\* written into fetch_criteria, and __exit__ runs when it raises; a connect()
\* that raises in __enter__ leaves no block to exit.
AttemptRaise(in_fetch) ==
    /\ wpc = "attempt"
    /\ LET acc == IF in_fetch THEN CriteriaWithMax(current_account)
                  ELSE current_account IN
         /\ current_account' = acc
         /\ accounts_config' = Written(accounts_config, current_account.id, acc)
         /\ enabled_accounts' = Written(enabled_accounts, current_account.id, acc)
    /\ wpc' = RaiseLeadsTo
    /\ new_emails' = <<>>
    /\ emails_done' = 0
    /\ cycle' = Attempted
    /\ fails' = fails + 1
    /\ connected' = IF in_fetch THEN ConnectedAfterWith ELSE FALSE
    /\ calls' = IF in_fetch
                THEN WithEnter(TRUE) \o <<Call("fetch_emails", <<>>, FALSE)>> \o WithExit
                ELSE WithEnter(FALSE)
    /\ attempted' = AttemptedWith(current_account)
    /\ cret' = "none"
    /\ cval' = None
    /\ UNCHANGED <<polling_config, current_account_index, queue,
                   processed_email_ids, stop_event, processing_event,
                   is_processing, worker_lock, poll_count, waits, cpc,
                   next_calls, epoch_puts, live_workers, next_since_start,
                   total_messages, last_message_time, last_message, glm_start,
                   email_ids_to_mark_read, attempt_puts>>
    /\ dpc' = dpc

\* The dedup test of one message: email.id in self._processed_email_ids.
IsDuplicateNever(email) == FALSE
IsDuplicate(email) == email.id \in processed_email_ids

\* The test before the batch call: if mark_as_read and email_ids_to_mark_read.
MarkDueAlways(flag, ids) == TRUE
MarkDue(flag, ids) == flag /\ ids # <<>>

\* for email in new_emails: one iteration, a duplicate skipped, any other
\* message put on the queue (process_email), its id added to the set and,
\* when the account asks for it, to email_ids_to_mark_read.  After the last
\* iteration the list is not read again (the next attempt rebinds it): the
\* model keeps it only while the loop runs.  The loop over, the batch call is
\* made if it is due; otherwise the with block ends and the model drops the
\* lists of the attempt.
ProcessEmail ==
    /\ wpc = "process"
    /\ emails_done < Len(new_emails)
    /\ LET email == new_emails[emails_done + 1]
           last == emails_done + 1 = Len(new_emails)
           to_mark == IF ~IsDuplicate(email) /\ MarkAsReadFlag(current_account)
                      THEN Append(email_ids_to_mark_read, email.id)
                      ELSE email_ids_to_mark_read
           mark == MarkDue(MarkAsReadFlag(current_account), to_mark)
           puts == IF IsDuplicate(email) THEN attempt_puts
                   ELSE Append(attempt_puts, email.id)
       IN
         /\ IF IsDuplicate(email)
            THEN UNCHANGED <<queue, total_messages, last_message_time,
                             processed_email_ids, epoch_puts>>
            ELSE /\ queue' = Append(queue, email)
                 /\ total_messages' = total_messages + 1
                 /\ last_message_time' = total_messages + 1
                 /\ processed_email_ids' = processed_email_ids \cup {email.id}
                 /\ epoch_puts' = [epoch_puts EXCEPT ![email.id] = @ + 1]
         /\ IF last
            THEN /\ new_emails' = <<>>
                 /\ emails_done' = 0
                 /\ wpc' = IF mark THEN "mark" ELSE "inc"
                 /\ connected' = IF mark THEN connected ELSE ConnectedAfterWith
                 /\ calls' = IF mark THEN <<>> ELSE WithExit
                 /\ email_ids_to_mark_read' = IF mark THEN to_mark ELSE <<>>
                 /\ attempt_puts' = IF mark THEN puts ELSE <<>>
            ELSE /\ new_emails' = new_emails
                 /\ emails_done' = emails_done + 1
                 /\ wpc' = "process"
                 /\ connected' = connected
                 /\ calls' = <<>>
                 /\ email_ids_to_mark_read' = to_mark
                 /\ attempt_puts' = puts
    /\ cret' = "none"
    /\ cval' = None
    /\ UNCHANGED <<accounts_config, polling_config, enabled_accounts,
                   current_account_index, stop_event, processing_event,
                   is_processing, worker_lock, current_account, poll_count,
                   waits, cpc, next_calls, cycle, fails, live_workers,
                   next_since_start, last_message, glm_start, attempted>>
    /\ dpc' = dpc

\* Where an exception of mark_as_read() takes the worker: the except clause
\* around the call, then the end of the with block, then poll_count += 1.
MarkRaiseLeavesLoop == "finally"
MarkRaiseLeadsTo == "inc"

\* fetcher.mark_as_read(email_ids_to_mark_read), which returns (ok) or raises;
\* then the with block ends.
MarkAsRead(ok) ==
    /\ wpc = "mark"
    /\ calls' = <<Call("mark_as_read", email_ids_to_mark_read, ok)>> \o WithExit
    /\ wpc' = IF ok THEN "inc" ELSE MarkRaiseLeadsTo
    /\ connected' = ConnectedAfterWith
    /\ email_ids_to_mark_read' = <<>>
    /\ attempt_puts' = <<>>
    /\ cret' = "none"
    /\ cval' = None
    /\ UNCHANGED <<accounts_config, polling_config, enabled_accounts,
                   current_account_index, queue, processed_email_ids,
                   stop_event, processing_event, is_processing, worker_lock,
                   current_account, poll_count, new_emails, emails_done,
                   waits, cpc, next_calls, cycle, epoch_puts, fails,
                   live_workers, next_since_start, total_messages,
                   last_message_time, last_message, glm_start, attempted>>
    /\ dpc' = dpc

\* The test after an attempt: if poll_count < max_poll_count, wait.
WaitFollowsAlways(count, max) == count <= max
WaitFollows(count, max) == count < max

\* poll_count += 1; if poll_count < max_poll_count: go and wait.
PollCount ==
    /\ wpc = "inc"
    /\ poll_count' = poll_count + 1
    /\ wpc' = IF WaitFollows(poll_count + 1, max_poll_count) THEN "pwait" ELSE "while"
    /\ cret' = "none"
    /\ cval' = None
    /\ calls' = <<>>
    /\ UNCHANGED <<accounts_config, polling_config, enabled_accounts,
                   current_account_index, queue, processed_email_ids,
                   stop_event, processing_event, is_processing, worker_lock,
                   current_account, new_emails, emails_done, waits, cpc,
                   next_calls, cycle, epoch_puts, fails, live_workers,
                   next_since_start, connected, total_messages,
                   last_message_time, last_message, glm_start,
                   email_ids_to_mark_read, attempt_puts, attempted>>
    /\ dpc' = dpc

\* self._stop_event.wait(timeout=poll_interval): returns true at once when the
\* event is set (break); otherwise the worker blocks, which is counted as a wait.
PollWaitEnter ==
    /\ wpc = "pwait"
    /\ wpc' = IF stop_event THEN "finally" ELSE "pblocked"
    /\ waits' = IF stop_event THEN waits ELSE waits + 1
    /\ cret' = "none"
    /\ cval' = None
    /\ calls' = <<>>
    /\ UNCHANGED <<accounts_config, polling_config, enabled_accounts,
                   current_account_index, queue, processed_email_ids,
                   stop_event, processing_event, is_processing, worker_lock,
                   current_account, poll_count, new_emails, emails_done, cpc,
                   next_calls, cycle, epoch_puts, fails, live_workers,
                   next_since_start, connected, total_messages,
                   last_message_time, last_message, glm_start,
                   email_ids_to_mark_read, attempt_puts, attempted>>
    /\ dpc' = dpc

\* The wait ends by its timeout (poll_interval elapsed): back to the loop test.
PollWaitTimeout ==
    /\ wpc = "pblocked"
    /\ wpc' = "while"
    /\ cret' = "none"
    /\ cval' = None
    /\ calls' = <<>>
    /\ UNCHANGED <<accounts_config, polling_config, enabled_accounts,
                   current_account_index, queue, processed_email_ids,
                   stop_event, processing_event, is_processing, worker_lock,
                   current_account, poll_count, new_emails, emails_done,
                   waits, cpc, next_calls, cycle, epoch_puts, fails,
                   live_workers, next_since_start, connected, total_messages,
                   last_message_time, last_message, glm_start,
                   email_ids_to_mark_read, attempt_puts, attempted>>
    /\ dpc' = dpc

\* The wait was ended by the stop signal: break.
PollWaitBreak ==
    /\ wpc = "pnotified"
    /\ wpc' = "finally"
    /\ cret' = "none"
    /\ cval' = None
    /\ calls' = <<>>
    /\ UNCHANGED <<accounts_config, polling_config, enabled_accounts,
                   current_account_index, queue, processed_email_ids,
                   stop_event, processing_event, is_processing, worker_lock,
                   current_account, poll_count, new_emails, emails_done,
                   waits, cpc, next_calls, cycle, epoch_puts, fails,
                   live_workers, next_since_start, connected, total_messages,
                   last_message_time, last_message, glm_start,
                   email_ids_to_mark_read, attempt_puts, attempted>>
    /\ dpc' = dpc

\* The value the finally clause gives the processing flag.
FlagLeftSet == TRUE
FlagAfterCycle == FALSE

\* finally: self._is_processing = False.  The poll cycle of the account is over.
WorkerFinallyFlag ==
    /\ wpc = "finally"
    /\ is_processing' = FlagAfterCycle
    /\ cycle' = [cycle EXCEPT ![PositionOf(current_account)] = "no"]
    /\ wpc' = "finally2"
    /\ cret' = "none"
    /\ cval' = None
    /\ calls' = <<>>
    /\ UNCHANGED <<accounts_config, polling_config, enabled_accounts,
                   current_account_index, queue, processed_email_ids,
                   stop_event, processing_event, worker_lock, current_account,
                   poll_count, new_emails, emails_done, waits, cpc,
                   next_calls, epoch_puts, fails, live_workers,
                   next_since_start, connected, total_messages,
                   last_message_time, last_message, glm_start,
                   email_ids_to_mark_read, attempt_puts, attempted>>
    /\ dpc' = dpc

\* The end of "with self._worker_lock:" in the worker: the lock is released.
LockKept == "worker"
LockAfterCycle == "free"

\* finally: self._processing_event.clear(), then the lock is released; the
\* locals of _poll_account are gone.
WorkerFinallyClear ==
    /\ wpc = "finally2"
    /\ processing_event' = FALSE
    /\ worker_lock' = LockAfterCycle
    /\ wpc' = "loop"
    /\ current_account' = NoAccount
    /\ poll_count' = 0
    /\ new_emails' = <<>>
    /\ emails_done' = 0
    /\ waits' = 0
    /\ fails' = 0
    /\ cret' = "none"
    /\ cval' = None
    /\ calls' = <<>>
    /\ UNCHANGED <<accounts_config, polling_config, enabled_accounts,
                   current_account_index, queue, processed_email_ids,
                   stop_event, is_processing, cpc, next_calls, cycle,
                   epoch_puts, live_workers, next_since_start, connected,
                   total_messages, last_message_time, last_message, glm_start,
                   email_ids_to_mark_read, attempt_puts, attempted>>
    /\ dpc' = dpc

WorkerNext ==
    \/ WorkerLoopCheck \/ WorkerWaitSignal \/ WorkerCheckStop \/ WorkerAcquire
    \/ WorkerSelect \/ PollEnter \/ PollWhile \/ AttemptFetch
    \/ \E in_fetch \in BOOLEAN : AttemptRaise(in_fetch)
    \/ ProcessEmail
    \/ \E ok \in BOOLEAN : MarkAsRead(ok)
    \/ PollCount \/ PollWaitEnter \/ PollWaitTimeout
    \/ PollWaitBreak \/ WorkerFinallyFlag \/ WorkerFinallyClear

(***************************************************************************)
(* The caller thread: the public methods of EmailPoller.                   *)
(***************************************************************************)
\* start(auto_flag): a no-op while the worker thread is alive; otherwise clears
\* the stop event and spawns the worker, then goes on into next() if auto_flag.
Start(auto_flag) ==
    /\ cpc = "idle"
    /\ (auto_flag /\ ~WorkerAlive) => next_calls < MaxNextCalls
    /\ IF ~WorkerAlive
       THEN /\ stop_event' = FALSE
            /\ wpc' = "loop"
            /\ live_workers' = live_workers + 1
            /\ next_since_start' = FALSE
            /\ cpc' = IF auto_flag THEN "next_clear" ELSE "idle"
            /\ cret' = "none"
            /\ cval' = None
       ELSE /\ cret' = "start_noop"
            /\ cval' = None
            /\ UNCHANGED <<stop_event, wpc, live_workers, next_since_start, cpc>>
    /\ calls' = <<>>
    /\ UNCHANGED <<accounts_config, polling_config, enabled_accounts,
                   current_account_index, queue, processed_email_ids,
                   processing_event, is_processing, worker_lock,
                   current_account, poll_count, new_emails, emails_done,
                   waits, next_calls, cycle, epoch_puts, fails, connected,
                   total_messages, last_message_time, last_message, glm_start,
                   email_ids_to_mark_read, attempt_puts, attempted>>
    /\ dpc' = DriverAfter(dpc, cpc', cret')

\* stop(), first half: a no-op unless the worker thread is alive; otherwise
\* self._stop_event.set().  The polls next() asked for are no longer due.
StopSetStop ==
    /\ cpc = "idle"
    /\ IF WorkerAlive
       THEN /\ stop_event' = TRUE
            /\ wpc' = NotifyStop(wpc)
            /\ cpc' = "stop_wake"
            /\ cycle' = NoCycles
            /\ cret' = "none"
            /\ cval' = None
       ELSE /\ cret' = "none"
            /\ cval' = None
            /\ UNCHANGED <<stop_event, wpc, cpc, cycle>>
    /\ calls' = <<>>
    /\ UNCHANGED <<accounts_config, polling_config, enabled_accounts,
                   current_account_index, queue, processed_email_ids,
                   processing_event, is_processing, worker_lock,
                   current_account, poll_count, new_emails, emails_done,
                   waits, next_calls, epoch_puts, fails, live_workers,
                   next_since_start, connected, total_messages,
                   last_message_time, last_message, glm_start,
                   email_ids_to_mark_read, attempt_puts, attempted>>
    /\ dpc' = DriverAfter(dpc, cpc', cret')

\* stop(): self._processing_event.set(), which wakes a worker blocked on it.
StopWake ==
    /\ cpc = "stop_wake"
    /\ processing_event' = TRUE
    /\ wpc' = NotifyProcessing(wpc)
    /\ cpc' = "stop_join"
    /\ cret' = "none"
    /\ cval' = None
    /\ calls' = <<>>
    /\ UNCHANGED <<accounts_config, polling_config, enabled_accounts,
                   current_account_index, queue, processed_email_ids,
                   stop_event, is_processing, worker_lock, current_account,
                   poll_count, new_emails, emails_done, waits, next_calls,
                   cycle, epoch_puts, fails, live_workers, next_since_start,
                   connected, total_messages, last_message_time, last_message,
                   glm_start, email_ids_to_mark_read, attempt_puts, attempted>>
    /\ dpc' = dpc

\* The worker is inside a call of the fetcher (connect, fetch_emails,
\* mark_as_read): the network call that may last longer than any timeout of
\* the caller.
FetcherCallInFlight == wpc \in {"attempt", "mark"}

\* stop(): self._worker_thread.join(timeout=5) returns, the worker having
\* terminated or the five seconds having passed.  The five seconds pass only
\* while a fetcher call is in flight: every other step of the worker takes no
\* time on that scale.
StopJoin ==
    /\ cpc = "stop_join"
    /\ wpc = "dead" \/ FetcherCallInFlight
    /\ cpc' = "idle"
    /\ cret' = "none"
    /\ cval' = None
    /\ calls' = <<>>
    /\ UNCHANGED <<accounts_config, polling_config, enabled_accounts,
                   current_account_index, queue, processed_email_ids,
                   stop_event, processing_event, is_processing, worker_lock,
                   wpc, current_account, poll_count, new_emails, emails_done,
                   waits, next_calls, cycle, epoch_puts, fails, live_workers,
                   next_since_start, connected, total_messages,
                   last_message_time, last_message, glm_start,
                   email_ids_to_mark_read, attempt_puts, attempted>>
    /\ dpc' = DriverAfter(dpc, cpc', cret')

\* EmailMessageQueue.clear() and the lifetime counter: clear() takes the
\* messages out and leaves _stats alone.
StatsZeroed(total) == 0
StatsAfterClear(total) == total

\* next(), called by the caller or from start(): self.message_queue.clear().
NextClear ==
    /\ \/ cpc = "idle" /\ next_calls < MaxNextCalls
       \/ cpc = "next_clear"
    /\ queue' = <<>>
    /\ total_messages' = StatsAfterClear(total_messages)
    /\ cpc' = "next_lock"
    /\ cret' = "none"
    /\ cval' = None
    /\ calls' = <<>>
    /\ UNCHANGED <<accounts_config, polling_config, enabled_accounts,
                   current_account_index, processed_email_ids, stop_event,
                   processing_event, is_processing, worker_lock, wpc,
                   current_account, poll_count, new_emails, emails_done,
                   waits, next_calls, cycle, epoch_puts, fails, live_workers,
                   next_since_start, connected, last_message_time,
                   last_message, glm_start, email_ids_to_mark_read,
                   attempt_puts, attempted>>
    /\ dpc' = dpc

\* Whether a caller's "with self._worker_lock:" may enter.
CallerMayLockAlways == TRUE
CallerMayLock == worker_lock = "free"

\* next(): with self._worker_lock.
NextAcquire ==
    /\ cpc = "next_lock"
    /\ CallerMayLock
    /\ worker_lock' = "caller"
    /\ cpc' = "next_body"
    /\ cret' = "none"
    /\ cval' = None
    /\ calls' = <<>>
    /\ UNCHANGED <<accounts_config, polling_config, enabled_accounts,
                   current_account_index, queue, processed_email_ids,
                   stop_event, processing_event, is_processing, wpc,
                   current_account, poll_count, new_emails, emails_done,
                   waits, next_calls, cycle, epoch_puts, fails, live_workers,
                   next_since_start, connected, total_messages,
                   last_message_time, last_message, glm_start,
                   email_ids_to_mark_read, attempt_puts, attempted>>
    /\ dpc' = dpc

\* The test of next(): self.current_account_index >= len(self.enabled_accounts).
CursorExhaustedLate(index, n) == index > n
CursorExhaustedNever(index, n) == FALSE
CursorExhausted(index, n) == index >= n

\* The dedup set as next() leaves it: next() does not write it.
DedupClearedByNext(ids) == {}
DedupAfterNext(ids) == ids

\* next(), under the lock: advance the cursor; past the end reset it to -1 and
\* return False, otherwise set the processing event and return True.
NextAdvance ==
    /\ cpc = "next_body"
    /\ IF CursorExhausted(current_account_index + 1, Len(enabled_accounts))
       THEN /\ current_account_index' = -1
            /\ cret' = "next_false"
            /\ cval' = None
            /\ UNCHANGED <<processing_event, wpc, cycle, next_since_start>>
       ELSE /\ current_account_index' = current_account_index + 1
            /\ next_since_start' = TRUE
            /\ processing_event' = TRUE
            /\ wpc' = NotifyProcessing(wpc)
            /\ cret' = "next_true"
            /\ cval' = None
            /\ cycle' = IF WorkerAlive /\ ~stop_event
                           /\ current_account_index + 2 \in DOMAIN cycle
                        THEN [cycle EXCEPT ![current_account_index + 2] = "selected"]
                        ELSE cycle
    /\ processed_email_ids' = DedupAfterNext(processed_email_ids)
    /\ worker_lock' = "free"
    /\ next_calls' = next_calls + 1
    /\ cpc' = "idle"
    /\ calls' = <<>>
    /\ UNCHANGED <<accounts_config, polling_config, enabled_accounts, queue,
                   stop_event, is_processing, current_account, poll_count,
                   new_emails, emails_done, waits, epoch_puts, fails,
                   live_workers, connected, total_messages, last_message_time,
                   last_message, glm_start, email_ids_to_mark_read,
                   attempt_puts, attempted>>
    /\ dpc' = DriverAfter(dpc, cpc', cret')

\* wait_for_completion(timeout) is called; timed tells whether timeout is a
\* number (TRUE) or None (FALSE).
WaitForCompletion(timed) ==
    /\ cpc = "idle"
    /\ cpc' = IF timed THEN "wait_timed" ELSE "wait_none"
    /\ cret' = "none"
    /\ cval' = None
    /\ calls' = <<>>
    /\ UNCHANGED <<accounts_config, polling_config, enabled_accounts,
                   current_account_index, queue, processed_email_ids,
                   stop_event, processing_event, is_processing, worker_lock,
                   wpc, current_account, poll_count, new_emails, emails_done,
                   waits, next_calls, cycle, epoch_puts, fails, live_workers,
                   next_since_start, connected, total_messages,
                   last_message_time, last_message, glm_start,
                   email_ids_to_mark_read, attempt_puts, attempted>>
    /\ dpc' = dpc

\* is_processing(): return self._is_processing.
IsProcessingBySignal == processing_event
IsProcessing == is_processing

\* wait_for_completion: "while self.is_processing()" finds the flag false.
WaitReturnTrue ==
    /\ cpc \in {"wait_timed", "wait_none"}
    /\ ~IsProcessing
    /\ cpc' = "idle"
    /\ cret' = "wait_true"
    /\ cval' = None
    /\ calls' = <<>>
    /\ UNCHANGED <<accounts_config, polling_config, enabled_accounts,
                   current_account_index, queue, processed_email_ids,
                   stop_event, processing_event, is_processing, worker_lock,
                   wpc, current_account, poll_count, new_emails, emails_done,
                   waits, next_calls, cycle, epoch_puts, fails, live_workers,
                   next_since_start, connected, total_messages,
                   last_message_time, last_message, glm_start,
                   email_ids_to_mark_read, attempt_puts, attempted>>
    /\ dpc' = DriverAfter(dpc, cpc', cret')

\* A timeout that would cancel the poll: not what wait_for_completion does.
WaitReturnFalseCancelling ==
    /\ cpc = "wait_timed"
    /\ IsProcessing
    /\ stop_event' = TRUE
    /\ wpc' = NotifyStop(wpc)
    /\ cpc' = "idle"
    /\ cret' = "wait_false"
    /\ cval' = None
    /\ calls' = <<>>
    /\ UNCHANGED <<accounts_config, polling_config, enabled_accounts,
                   current_account_index, queue, processed_email_ids,
                   processing_event, is_processing, worker_lock,
                   current_account, poll_count, new_emails, emails_done,
                   waits, next_calls, cycle, epoch_puts, fails, live_workers,
                   next_since_start, connected, total_messages,
                   last_message_time, last_message, glm_start,
                   email_ids_to_mark_read, attempt_puts, attempted>>
    /\ dpc' = DriverAfter(dpc, cpc', cret')

\* wait_for_completion: the flag is found true and elapsed >= timeout.
WaitReturnFalse ==
    /\ cpc = "wait_timed"
    /\ IsProcessing
    /\ cpc' = "idle"
    /\ cret' = "wait_false"
    /\ cval' = None
    /\ calls' = <<>>
    /\ UNCHANGED <<accounts_config, polling_config, enabled_accounts,
                   current_account_index, queue, processed_email_ids,
                   stop_event, processing_event, is_processing, worker_lock,
                   wpc, current_account, poll_count, new_emails, emails_done,
                   waits, next_calls, cycle, epoch_puts, fails, live_workers,
                   next_since_start, connected, total_messages,
                   last_message_time, last_message, glm_start,
                   email_ids_to_mark_read, attempt_puts, attempted>>
    /\ dpc' = DriverAfter(dpc, cpc', cret')

\* reset() is called and comes to its "with self._worker_lock:".
Reset ==
    /\ cpc = "idle"
    /\ cpc' = "reset_lock"
    /\ cret' = "none"
    /\ cval' = None
    /\ calls' = <<>>
    /\ UNCHANGED <<accounts_config, polling_config, enabled_accounts,
                   current_account_index, queue, processed_email_ids,
                   stop_event, processing_event, is_processing, worker_lock,
                   wpc, current_account, poll_count, new_emails, emails_done,
                   waits, next_calls, cycle, epoch_puts, fails, live_workers,
                   next_since_start, connected, total_messages,
                   last_message_time, last_message, glm_start,
                   email_ids_to_mark_read, attempt_puts, attempted>>
    /\ dpc' = dpc

\* self._processed_email_ids.clear(): the set reset() leaves.
DedupKept(ids) == ids
DedupAfterReset(ids) == {}

\* reset(): the lock taken, the body, the lock released.
ResetBody ==
    /\ cpc = "reset_lock"
    /\ CallerMayLock
    /\ current_account_index' = -1
    /\ queue' = <<>>
    /\ total_messages' = StatsAfterClear(total_messages)
    /\ enabled_accounts' = SelectEnabled(accounts_config)
    /\ processing_event' = FALSE
    /\ processed_email_ids' = DedupAfterReset(processed_email_ids)
    /\ cpc' = "idle"
    /\ cret' = "reset_done"
    /\ cval' = None
    /\ next_calls' = 0
    /\ cycle' = NoCycles
    /\ epoch_puts' = [id \in Ids |-> 0]
    /\ calls' = <<>>
    /\ UNCHANGED <<accounts_config, polling_config, stop_event, is_processing,
                   worker_lock, wpc, current_account, poll_count, new_emails,
                   emails_done, waits, fails, live_workers, next_since_start,
                   connected, last_message_time, last_message, glm_start,
                   email_ids_to_mark_read, attempt_puts, attempted>>
    /\ dpc' = DriverAfter(dpc, cpc', cret')

\* queue.Queue.get_nowait() on a queue that is not empty: the message taken
\* and the queue left.
GetNewest(q) == <<q[Len(q)], SubSeq(q, 1, Len(q) - 1)>>
GetNowait(q) == <<Head(q), Tail(q)>>

\* get_message(): the head of the queue, or None.
GetMessage ==
    /\ cpc = "idle"
    /\ IF queue = <<>>
       THEN cret' = "none" /\ cval' = None /\ UNCHANGED queue
       ELSE /\ cret' = "message"
            /\ cval' = GetNowait(queue)[1]
            /\ queue' = GetNowait(queue)[2]
    /\ calls' = <<>>
    /\ UNCHANGED <<accounts_config, polling_config, enabled_accounts,
                   current_account_index, processed_email_ids, stop_event,
                   processing_event, is_processing, worker_lock, wpc,
                   current_account, poll_count, new_emails, emails_done,
                   waits, cpc, next_calls, cycle, epoch_puts, fails,
                   live_workers, next_since_start, connected, total_messages,
                   last_message_time, last_message, glm_start,
                   email_ids_to_mark_read, attempt_puts, attempted>>
    /\ dpc' = DriverAfter(dpc, cpc', cret')

\* get_last_message() is called: last_message = None.
GetLastMessage ==
    /\ cpc = "idle"
    /\ cpc' = "glm"
    /\ last_message' = None
    /\ glm_start' = <<queue, total_messages>>
    /\ cret' = "none"
    /\ cval' = None
    /\ calls' = <<>>
    /\ UNCHANGED <<accounts_config, polling_config, enabled_accounts,
                   current_account_index, queue, processed_email_ids,
                   stop_event, processing_event, is_processing, worker_lock,
                   wpc, current_account, poll_count, new_emails, emails_done,
                   waits, next_calls, cycle, epoch_puts, fails, live_workers,
                   next_since_start, connected, total_messages,
                   last_message_time, email_ids_to_mark_read, attempt_puts,
                   attempted>>
    /\ dpc' = dpc

\* What last_message is after one more get_message() of the drain loop.
OldestOf(previous, taken) == IF previous = None THEN taken ELSE previous
LatestOf(previous, taken) == taken

\* get_last_message(): one test of "while not self.message_queue._queue.empty()":
\* a message is taken into last_message, or the loop ends and last_message
\* is returned.
GetLastLoop ==
    /\ cpc = "glm"
    /\ IF queue = <<>>
       THEN /\ cpc' = "idle"
            /\ cret' = "last_message"
            /\ cval' = last_message
            /\ last_message' = None
            /\ glm_start' = <<<<>>, 0>>
            /\ UNCHANGED queue
       ELSE /\ last_message' = LatestOf(last_message, GetNowait(queue)[1])
            /\ queue' = GetNowait(queue)[2]
            /\ cret' = "none"
            /\ cval' = None
            /\ UNCHANGED <<cpc, glm_start>>
    /\ calls' = <<>>
    /\ UNCHANGED <<accounts_config, polling_config, enabled_accounts,
                   current_account_index, processed_email_ids, stop_event,
                   processing_event, is_processing, worker_lock, wpc,
                   current_account, poll_count, new_emails, emails_done,
                   waits, next_calls, cycle, epoch_puts, fails, live_workers,
                   next_since_start, connected, total_messages,
                   last_message_time, email_ids_to_mark_read, attempt_puts,
                   attempted>>
    /\ dpc' = DriverAfter(dpc, cpc', cret')

\* get_current_account(): the account under the cursor, None when the cursor
\* is outside the list.
GetCurrentAccount ==
    /\ cpc = "idle"
    /\ IF current_account_index >= 0 /\ current_account_index < Len(enabled_accounts)
       THEN cret' = "account" /\ cval' = enabled_accounts[current_account_index + 1]
       ELSE cret' = "no_account" /\ cval' = None
    /\ calls' = <<>>
    /\ UNCHANGED <<accounts_config, polling_config, enabled_accounts,
                   current_account_index, queue, processed_email_ids,
                   stop_event, processing_event, is_processing, worker_lock,
                   wpc, current_account, poll_count, new_emails, emails_done,
                   waits, cpc, next_calls, cycle, epoch_puts, fails,
                   live_workers, next_since_start, connected, total_messages,
                   last_message_time, last_message, glm_start,
                   email_ids_to_mark_read, attempt_puts, attempted>>
    /\ dpc' = DriverAfter(dpc, cpc', cret')

\* The steps that begin a call of a public method.
CallerCalls ==
    \/ \E auto_flag \in BOOLEAN : Start(auto_flag)
    \/ StopSetStop
    \/ \E timed \in BOOLEAN : WaitForCompletion(timed)
    \/ Reset
    \/ GetMessage
    \/ GetLastMessage
    \/ GetCurrentAccount

\* The steps inside a call that has begun (NextClear begins next() as well).
CallerContinues ==
    \/ StopWake \/ StopJoin
    \/ NextClear \/ NextAcquire \/ NextAdvance
    \/ WaitReturnTrue \/ WaitReturnFalse
    \/ ResetBody
    \/ GetLastLoop

CallerNext == CallerCalls \/ CallerContinues

(***************************************************************************)
(* The specifications.                                                     *)
(***************************************************************************)
Next == WorkerNext \/ CallerNext

Spec == Init /\ [][Next]_vars

\* The steps of a caller inside a call: a call that has begun goes on.
CallerInCall == cpc # "idle" /\ CallerContinues

\* The threads are scheduled: the worker runs when it can (a fetcher call in
\* flight returns or raises), and a call that has begun goes on.
FairSpec ==
    /\ InitFrom({ScheduledConfig})
    /\ [][Next]_vars
    /\ WF_vars(WorkerNext)
    /\ WF_vars(CallerInCall)

(***************************************************************************)
(* The driver of main() and test_main(): the caller is the loop            *)
(*   start(); time.sleep(3)                                                *)
(*   while count_flag:                                                     *)
(*       while not wait_for_completion(10): drain the queue by get_message *)
(*       count_flag = next()                                               *)
(*   finally: stop()                                                       *)
(* inside try: ... finally, so that stop() is called as well when the loop *)
(* is left by an exception.                                                *)
(***************************************************************************)
\* The configuration file of the driver runs: two enabled accounts of known
\* types, the first polled once and marking what it fetched as read, the
\* second polled MaxPollCount times.
DriverConfig ==
    <<DictSet(Account("acc1", TRUE, "outlook_imap", <<1>>), "fetch_criteria",
              [mark_as_read_after_fetch |-> TRUE]),
      Account("acc2", TRUE, "imap", <<>>)>>

\* time.sleep(3) returns.  The three seconds pass only while the worker is
\* blocked in a wait or inside a fetcher call: every other step of the worker
\* takes no time on that scale.
DriverSleep ==
    /\ dpc = "sleep"
    /\ cpc = "idle"
    /\ wpc \in {"blocked", "pblocked", "dead"} \/ FetcherCallInFlight
    /\ dpc' = "wait"
    /\ cret' = "none"
    /\ cval' = None
    /\ calls' = <<>>
    /\ UNCHANGED <<accounts_config, polling_config, enabled_accounts,
                   current_account_index, queue, processed_email_ids,
                   stop_event, processing_event, is_processing, worker_lock,
                   wpc, current_account, poll_count, new_emails, emails_done,
                   waits, cpc, next_calls, cycle, epoch_puts, fails,
                   live_workers, next_since_start, connected, total_messages,
                   last_message_time, last_message, glm_start,
                   email_ids_to_mark_read, attempt_puts, attempted>>

\* An exception leaves the loop between two calls of the driver (a
\* KeyboardInterrupt, or one raised while a drained message is handled):
\* the finally clause follows.
DriverRaise ==
    /\ dpc \in {"wait", "drain", "next"}
    /\ cpc = "idle"
    /\ dpc' = "stop_exc"
    /\ cret' = "none"
    /\ cval' = None
    /\ calls' = <<>>
    /\ UNCHANGED <<accounts_config, polling_config, enabled_accounts,
                   current_account_index, queue, processed_email_ids,
                   stop_event, processing_event, is_processing, worker_lock,
                   wpc, current_account, poll_count, new_emails, emails_done,
                   waits, cpc, next_calls, cycle, epoch_puts, fails,
                   live_workers, next_since_start, connected, total_messages,
                   last_message_time, last_message, glm_start,
                   email_ids_to_mark_read, attempt_puts, attempted>>

\* The call the driver makes next.
DriverCalls ==
    \/ dpc = "start" /\ Start(TRUE)
    \/ DriverSleep
    \/ DriverRaise
    \/ dpc = "wait"  /\ WaitForCompletion(TRUE)
    \/ dpc = "drain" /\ GetMessage
    \/ dpc = "next"  /\ cpc = "idle" /\ NextClear
    \/ dpc \in {"stop", "stop_exc"} /\ StopSetStop

\* The steps inside the calls the driver makes.
DriverContinues ==
    \/ cpc = "next_clear" /\ NextClear
    \/ NextAcquire \/ NextAdvance
    \/ WaitReturnTrue \/ WaitReturnFalse
    \/ StopWake \/ StopJoin

DriverNext == WorkerNext \/ DriverCalls \/ DriverContinues

DriverSpec == InitWith({DriverConfig}, "start") /\ [][DriverNext]_vars

(***************************************************************************)
(* State functions the properties are stated with.                         *)
(***************************************************************************)
\* The worker is inside the while loop of _poll_account.
InPollLoop ==
    wpc \in {"while", "attempt", "process", "mark", "inc", "pwait", "pblocked",
             "pnotified"}

\* The worker is inside _poll_account or its finally clause: a cycle is running.
InCycle == wpc \in {"poll", "finally"} \/ InPollLoop

\* The fetch attempts begun in the running cycle.
Attempts == poll_count + (IF wpc \in {"attempt", "process", "mark"} THEN 1 ELSE 0)

\* max_poll_count as a number of attempts: none when it is zero or negative.
AllowedAttempts == IF max_poll_count > 0 THEN max_poll_count ELSE 0

\* The caller has just been given result by the call that ended with the last step.
Returned(result) == cpc = "idle" /\ cret = result

(***************************************************************************)
(* C1.  Handshake: once next() has returned true, wait_for_completion      *)
(* returns true only when the worker has finished the poll cycle of the    *)
(* account next() selected, in every interleaving of caller and worker.    *)
(***************************************************************************)
C1_Handshake ==
    (Returned("wait_true") /\ current_account_index >= 0)
        => cycle[current_account_index + 1] = "no"

(***************************************************************************)
(* C2.  Cursor sequence: the k-th next() since construction or reset()     *)
(* returns false iff k mod (N+1) = 0; a call that returns true leaves the  *)
(* cursor on account (k mod (N+1)) - 1, one further than the call before,  *)
(* and a call that returns false leaves it at -1.                          *)
(***************************************************************************)
C2_CursorSequence ==
    LET N == Len(enabled_accounts)
        k == next_calls
    IN  (cpc = "idle" /\ cret \in {"next_true", "next_false"}) =>
           /\ k >= 1
           /\ (cret = "next_false") <=> (k % (N + 1) = 0)
           /\ current_account_index = (k % (N + 1)) - 1

\* The second pass over two accounts has begun: calls 1 and 2 returned true,
\* call 3 false, call 4 true again with account 0.
C2_Witness ==
    /\ Len(enabled_accounts) = 2
    /\ next_calls = 4
    /\ Returned("next_true")
    /\ current_account_index = 0

(***************************************************************************)
(* C3.  Dedup: between two reset() calls put_message is executed at most   *)
(* once for a message of each id, whatever the fetcher returns.            *)
(***************************************************************************)
C3_DedupOncePerEpoch ==
    \A id \in Ids :
        /\ epoch_puts[id] <= 1
        /\ epoch_puts[id] = 1 <=> id \in processed_email_ids

\* The second attempt of a cycle returned a, b after a was enqueued by the
\* first; the loop has passed over a without enqueuing it again.
C3_Witness ==
    /\ wpc = "process"
    /\ poll_count = 1
    /\ Len(new_emails) = 2 /\ new_emails[1].id = "a" /\ new_emails[2].id = "b"
    /\ emails_done = 1
    /\ Len(queue) = 1 /\ queue[1].id = "a"
    /\ epoch_puts["a"] = 1

(***************************************************************************)
(* C4.  Single-account queue: after next() has returned, every message in  *)
(* the queue was fetched for the account that is current; the queue holds  *)
(* no message of an account selected before (none at all when no account   *)
(* is current).                                                            *)
(***************************************************************************)
C4_SingleAccountQueue ==
    (cpc = "idle" /\ cret \in {"next_true", "next_false"}) =>
        \A i \in 1..Len(queue) :
            /\ current_account_index >= 0
            /\ queue[i].account_email = enabled_accounts[current_account_index + 1].id

(***************************************************************************)
(* C5.  stop() during the inter-attempt wait: the wait ends by the stop    *)
(* signal and the loop is left (break); from the moment the stop event is  *)
(* set no fetch attempt begins; the worker thread terminates.              *)
(***************************************************************************)
C5_StopDuringWait ==
    /\ [][wpc = "pnotified" => wpc' \in {"pnotified", "finally"}]_vars
    /\ [][(stop_event /\ wpc' = "attempt") => wpc = "attempt"]_vars
    /\ [][(stop_event /\ WorkerAlive) => stop_event']_vars
    /\ (wpc = "pnotified") ~> (wpc = "dead")

\* stop() has set the stop event while the worker waited between two attempts,
\* with attempts left.
C5_Witness ==
    /\ wpc = "pnotified"
    /\ cpc \in {"stop_wake", "stop_join"}
    /\ poll_count < max_poll_count

C7_WaitResult ==
    [][(cpc \in {"wait_timed", "wait_none"} /\ cpc' = "idle") =>
          /\ cret' \in {"wait_true", "wait_false"}
          /\ cret' = "wait_false" => (cpc = "wait_timed" /\ InCycle)
          /\ cret' = "wait_true" => ~InPollLoop]_vars

\* wait_for_completion has returned true after stop() cut the cycle short with
\* attempts left unused.
C7_Witness ==
    /\ Returned("wait_true")
    /\ wpc = "finally2"
    /\ stop_event
    /\ poll_count >= 1
    /\ poll_count < max_poll_count

(***************************************************************************)
(* C8.  Every next() that returns true leads to a poll of the account it   *)
(* selected (worker alive, max_poll_count >= 1, known type, no stop() and  *)
(* no reset()): when the worker is blocked on the processing signal and    *)
(* the caller is in no call, no selected account is left without a fetch   *)
(* attempt.                                                                *)
(***************************************************************************)
C8_SelectedIsPolled ==
    (wpc = "blocked" /\ cpc = "idle") =>
        \A i \in 1..Len(enabled_accounts) :
            (/\ enabled_accounts[i].type \in FETCHER_MAPPING
             /\ EffectiveMaxPollCount(enabled_accounts[i], polling_config) >= 1)
                => cycle[i] # "selected"

(***************************************************************************)
(* C9.  The worker polls only the current account: while a cycle runs, the *)
(* account polled is enabled_accounts[current_index] and the worker holds  *)
(* the lock; no step of next() or reset() changes the cursor or the list   *)
(* meanwhile (the list changes only where the worker writes into the       *)
(* descriptor it polls).                                                   *)
(***************************************************************************)
C9_PollsCurrentAccount ==
    /\ [](InCycle =>
            /\ worker_lock = "worker"
            /\ current_account_index >= 0
            /\ current_account_index < Len(enabled_accounts)
            /\ enabled_accounts[current_account_index + 1] = current_account)
    /\ [][InCycle =>
            /\ current_account_index' = current_account_index
            /\ \/ enabled_accounts' = enabled_accounts
               \/ enabled_accounts' =
                     Written(enabled_accounts, current_account.id, current_account')]_vars

\* next() was called during a poll of account 0 and waits for the lock.
C9_Witness ==
    /\ wpc = "attempt"
    /\ cpc = "next_lock"
    /\ current_account_index = 0

(***************************************************************************)
(* C10.  Bounded attempts, as claimed, for an account that has a fetcher:  *)
(* in one poll cycle attempts <= max_poll_count, exactly max_poll_count    *)
(* (zero when it is <= 0) when no stop signal arrives, and at most         *)
(* attempts - 1 waits.                                                     *)
(***************************************************************************)
C10_WaitsBelowAttempts ==
    (wpc = "finally" /\ current_account.type \in FETCHER_MAPPING) =>
        /\ poll_count <= AllowedAttempts
        /\ ~stop_event => poll_count = AllowedAttempts
        /\ waits <= (IF poll_count > 0 THEN poll_count - 1 ELSE 0)

(***************************************************************************)
(* C10, amended.  In a cycle of an account of known type: attempts <=      *)
(* max_poll_count (none when it is <= 0), exactly that many when no stop   *)
(* signal arrives; every attempt after the first follows exactly one wait, *)
(* so waits = attempts - 1 when an attempt begins and at the end of a      *)
(* cycle no stop cut short; waits <= max_poll_count - 1 always (no wait    *)
(* follows the last allowed attempt), and a cycle cut short by stop() has  *)
(* attempts - 1 or attempts waits.  A cycle of an account of unknown type  *)
(* makes no attempt and no wait.                                           *)
(***************************************************************************)
C10_BoundedAttempts ==
    /\ (InPollLoop \/ (wpc = "finally" /\ current_account.type \in FETCHER_MAPPING)) =>
          /\ Attempts <= AllowedAttempts
          /\ waits <= (IF AllowedAttempts > 0 THEN AllowedAttempts - 1 ELSE 0)
          /\ waits <= poll_count
          /\ poll_count <= waits + 1
          /\ wpc = "attempt" => waits = poll_count
          /\ wpc \in {"pwait", "pblocked", "pnotified"} => poll_count < max_poll_count
          /\ (wpc = "finally" /\ ~stop_event) =>
                /\ poll_count = AllowedAttempts
                /\ waits = (IF poll_count > 0 THEN poll_count - 1 ELSE 0)
    /\ (wpc = "finally" /\ current_account.type \notin FETCHER_MAPPING) =>
          /\ poll_count = 0
          /\ waits = 0

\* A full cycle of two attempts and one wait has ended with no stop signal.
C10_Witness ==
    /\ wpc = "finally"
    /\ ~stop_event
    /\ max_poll_count = 2
    /\ poll_count = 2
    /\ waits = 1

(***************************************************************************)
(* C11.  Every poll cycle ends: the worker is again and again outside a    *)
(* cycle with the processing flag false, so that a worker inside a cycle   *)
(* eventually leaves it with the flag false (every fetcher call returning  *)
(* or raising); and a caller does not stay blocked in                      *)
(* wait_for_completion(None): it leaves it, which it does only by getting  *)
(* true.                                                                   *)
(***************************************************************************)
C11_CycleEnds ==
    /\ []<>(~InCycle /\ ~is_processing)
    /\ []<>(cpc # "wait_none")
    /\ [][(cpc = "wait_none" /\ cpc' # "wait_none") =>
            (cpc' = "idle" /\ cret' = "wait_true")]_vars

\* The caller is blocked in wait_for_completion(None) while the worker waits
\* between two attempts of a cycle no stop signal has reached.
C11_Witness ==
    /\ cpc = "wait_none"
    /\ wpc = "pblocked"
    /\ is_processing
    /\ ~stop_event

(***************************************************************************)
(* C12.  Failed attempts are absorbed: an attempt that raises enqueues     *)
(* nothing and marks no id, is counted in poll_count, and is followed by   *)
(* the wait and the next attempt like any other; a cycle whose attempts    *)
(* all raised, with no stop signal, has made exactly max_poll_count        *)
(* attempts and has put nothing on the queue; the worker thread ends only  *)
(* by the stop signal.                                                     *)
(***************************************************************************)
C12_FailuresAbsorbed ==
    /\ [](InCycle => fails <= poll_count + (IF wpc = "inc" THEN 1 ELSE 0))
    /\ []((/\ wpc = "finally"
           /\ current_account.type \in FETCHER_MAPPING
           /\ ~stop_event
           /\ fails = poll_count)
              => poll_count = AllowedAttempts)
    /\ [][fails' = fails + 1 =>
            /\ wpc = "attempt" /\ wpc' = "inc"
            /\ queue' = queue
            /\ processed_email_ids' = processed_email_ids
            /\ is_processing']_vars
    /\ [][(wpc = "inc" /\ wpc' # "inc") =>
            /\ poll_count' = poll_count + 1
            /\ wpc' = IF poll_count' < max_poll_count THEN "pwait" ELSE "while"]_vars
    /\ [][(InPollLoop /\ fails = Attempts) => Len(queue') <= Len(queue)]_vars
    /\ [][(wpc # "dead" /\ wpc' = "dead") => stop_event]_vars

\* Both attempts of a cycle of two have raised; the cycle ends with the queue
\* empty and no stop signal.
C12_Witness ==
    /\ wpc = "finally"
    /\ ~stop_event
    /\ max_poll_count = 2
    /\ poll_count = 2
    /\ fails = 2
    /\ queue = <<>>

(***************************************************************************)
(* C13.  Disabled accounts are never polled: enabled_accounts is the       *)
(* sub-sequence, in configuration order, of the configured accounts whose  *)
(* enabled flag is present and true; the account next() has selected and   *)
(* the account the worker polls carry the flag.                            *)
(***************************************************************************)
C13_OnlyEnabledPolled ==
    LET FlagTrue(a) == "enabled" \in DOMAIN a /\ a.enabled = TRUE
        n == Len(enabled_accounts)
        m == Len(accounts_config)
    IN  /\ \E f \in [1..n -> 1..m] :
              /\ \A i \in 1..n : enabled_accounts[i] = accounts_config[f[i]]
              /\ \A i, j \in 1..n : i < j => f[i] < f[j]
              /\ \A k \in 1..m :
                    FlagTrue(accounts_config[k]) <=> (\E i \in 1..n : f[i] = k)
        /\ InCycle =>
              /\ FlagTrue(current_account)
              /\ \E k \in 1..m : accounts_config[k] = current_account
        /\ Returned("next_true") =>
              /\ current_account_index \in 0..(n - 1)
              /\ FlagTrue(enabled_accounts[current_account_index + 1])

\* The worker polls the third configured account, the second of the enabled
\* ones, selected by the second next(); the first configured one is disabled.
C13_Witness ==
    /\ Len(accounts_config) = 3
    /\ ~accounts_config[1].enabled
    /\ wpc = "attempt"
    /\ current_account = accounts_config[3]
    /\ current_account_index = 1
    /\ next_calls = 2

(***************************************************************************)
(* C14.  start() is idempotent: a start() made while the worker thread is  *)
(* alive spawns no thread, does not go on into next(), and changes neither *)
(* the cursor nor the queue nor any other field; at most one worker thread *)
(* is alive in every reachable state.                                      *)
(***************************************************************************)
C14_StartIdempotent ==
    /\ [](live_workers = IF wpc \in {"none", "dead"} THEN 0 ELSE 1)
    /\ [][(wpc \notin {"none", "dead"} /\ \E auto_flag \in BOOLEAN : Start(auto_flag)) =>
            /\ cpc' = "idle"
            /\ cret' = "start_noop"
            /\ UNCHANGED <<accounts_config, polling_config, enabled_accounts,
                           current_account_index, queue, processed_email_ids,
                           stop_event, processing_event, is_processing,
                           worker_lock, wpc, current_account, poll_count,
                           new_emails, emails_done, connected, live_workers>>]_vars

\* start() has returned without effect while the one worker thread is in a
\* fetch attempt for account 0 and a message is queued.
C14_Witness ==
    /\ Returned("start_noop")
    /\ wpc = "attempt"
    /\ current_account_index = 0
    /\ queue # <<>>
    /\ live_workers = 1

(***************************************************************************)
(* C15.  start() spawns the worker in Idle: a worker makes a fetch attempt *)
(* only after a next() has returned true since that worker was spawned     *)
(* (the next() start() itself makes with auto_select counts), at the first *)
(* start and at a start after a stop() alike.                              *)
(***************************************************************************)
C15_SpawnedIdle == (wpc = "attempt") => next_since_start

(***************************************************************************)
(* C16.  Cursor range: in every state in which no next() or reset() is in  *)
(* progress, -1 <= current_index <= len(enabled_accounts) - 1;             *)
(* get_current_account() returns None iff current_index = -1 and returns   *)
(* enabled_accounts[current_index] otherwise.                              *)
(***************************************************************************)
C16_CursorRange ==
    /\ cpc \notin {"next_lock", "next_body", "reset_lock"} =>
          /\ current_account_index >= -1
          /\ current_account_index <= Len(enabled_accounts) - 1
    /\ Returned("no_account") => (current_account_index = -1 /\ cval = None)
    /\ Returned("account") =>
          /\ current_account_index # -1
          /\ cval = enabled_accounts[current_account_index + 1]

\* get_current_account() has returned the second enabled account.
C16_Witness ==
    /\ Returned("account")
    /\ current_account_index = 1
    /\ Len(enabled_accounts) = 2
    /\ cval = enabled_accounts[2]

(***************************************************************************)
(* C17.  A wait_for_completion timeout leaves the worker untouched: the    *)
(* call, from its entry to its return, changes no field of the poller      *)
(* (events, flag, cursor, list, queue, dedup set, lock, the worker's       *)
(* position and locals); and a worker that was waiting between attempts    *)
(* when the call returned false goes on to its next attempt unless a stop  *)
(* signal arrives.                                                         *)
(***************************************************************************)
C17_TimeoutLeavesWorker ==
    /\ [][(\/ cpc = "idle" /\ cpc' \in {"wait_timed", "wait_none"}
           \/ cpc \in {"wait_timed", "wait_none"} /\ cpc' = "idle") =>
            UNCHANGED <<accounts_config, polling_config, enabled_accounts,
                        current_account_index, queue, processed_email_ids,
                        stop_event, processing_event, is_processing,
                        worker_lock, wpc, current_account, poll_count,
                        new_emails, emails_done, connected, live_workers>>]_vars
    /\ [][cret' = "wait_false" => (cret = "wait_false" \/ is_processing)]_vars
    /\ (Returned("wait_false") /\ wpc = "pblocked" /\ ~stop_event)
          ~> (wpc = "attempt" \/ stop_event)

\* wait_for_completion has timed out while the worker waits between the two
\* attempts of a cycle; the first attempt's message is queued, no stop signal.
C17_Witness ==
    /\ Returned("wait_false")
    /\ wpc = "pblocked"
    /\ ~stop_event
    /\ poll_count = 1
    /\ Len(queue) = 1

(***************************************************************************)
(* C18.  stop() is not preemptive: with the stop event set during a fetch  *)
(* attempt, the attempt runs to its end (every message of the fetched list *)
(* is taken in turn, a new one enqueued and marked, a duplicate skipped,   *)
(* and the fetcher is disconnected when the list is done and the batch     *)
(* mark_as_read call, if due, was made); after it that worker begins no    *)
(* attempt and selects no account any more.                                *)
(***************************************************************************)
C18_StopNotPreemptive ==
    /\ [](connected => wpc \in {"process", "mark"})
    /\ [][(stop_event /\ wpc = "process") =>
            /\ wpc' \in {"process", "mark", "inc"}
            /\ wpc' \in {"mark", "inc"} => emails_done + 1 = Len(new_emails)
            /\ (wpc' = "process" /\ emails_done' # emails_done) =>
                    emails_done' < Len(new_emails)
            /\ wpc' = "inc" => ~connected']_vars
    /\ [][(stop_event /\ wpc = "mark") =>
            /\ wpc' \in {"mark", "inc"}
            /\ wpc' = "inc" => ~connected']_vars
    /\ [][(stop_event /\ wpc = "process" /\ <<wpc, emails_done>>' # <<wpc, emails_done>>) =>
            LET email == new_emails[emails_done + 1] IN
              /\ wpc' = "process" => emails_done' = emails_done + 1
              /\ IF email.id \in processed_email_ids
                 THEN queue' = queue /\ processed_email_ids' = processed_email_ids
                 ELSE /\ queue' = Append(queue, email)
                      /\ processed_email_ids' = processed_email_ids \cup {email.id}]_vars
    /\ [][(stop_event /\ wpc' = "attempt") => wpc = "attempt"]_vars
    /\ [][(stop_event /\ wpc \notin {"none", "dead"}) => stop_event']_vars
    /\ [][(stop_event /\ (InPollLoop \/ wpc \in {"finally", "finally2", "loop"})) =>
            wpc' \notin {"wait", "blocked", "woke", "lock", "locked", "poll"}]_vars

\* stop() has set the stop event during an attempt that fetched two messages;
\* the first is enqueued, the second is still to be taken.
C18_Witness ==
    /\ stop_event
    /\ cpc \in {"stop_wake", "stop_join"}
    /\ wpc = "process"
    /\ connected
    /\ Len(new_emails) = 2
    /\ emails_done = 1
    /\ queue = <<new_emails[1]>>

(***************************************************************************)
(* C19.  Queue order: the queue is FIFO over enqueue order.  The worker    *)
(* appends the messages of an attempt at the tail, in the order of the     *)
(* fetched list, so after every message of an earlier attempt;             *)
(* get_message() removes and returns the head, get_last_message() takes    *)
(* the head as well; nothing else changes the queue but a clear.           *)
(* get_message() on an empty queue returns None, and it never blocks.      *)
(***************************************************************************)
C19_QueueFifo ==
    /\ [][queue' # queue =>
            \/ queue' = <<>>
            \/ /\ queue # <<>>
               /\ queue' = Tail(queue)
               /\ \/ cret' = "message" /\ cval' = Head(queue)
                  \/ cpc = "glm" /\ last_message' = Head(queue)
            \/ /\ wpc = "process"
               /\ wpc' \in {"process", "mark", "inc"}
               /\ queue' = Append(queue, new_emails[emails_done + 1])]_vars
    /\ [][GetMessage =>
            /\ cpc' = "idle"
            /\ IF queue = <<>>
               THEN cret' = "none" /\ cval' = None /\ queue' = queue
               ELSE cret' = "message" /\ cval' = Head(queue) /\ queue' = Tail(queue)]_vars
    /\ [](cpc = "idle" => ENABLED GetMessage)
    /\ [][(wpc = "process" /\ <<wpc, emails_done>>' # <<wpc, emails_done>>) =>
            LET email == new_emails[emails_done + 1] IN
              /\ \/ wpc' = "process" /\ emails_done' = emails_done + 1
                                    /\ new_emails' = new_emails
                 \/ wpc' \in {"mark", "inc"} /\ emails_done + 1 = Len(new_emails)
              /\ queue' = IF email.id \in processed_email_ids
                          THEN queue ELSE Append(queue, email)]_vars

\* get_message() has returned a, enqueued by the first attempt; b, fetched by
\* the second attempt, is now the head.
C19_Witness ==
    /\ Returned("message")
    /\ cval.id = "a"
    /\ Len(queue) = 1
    /\ queue[1].id = "b"
    /\ wpc = "inc"
    /\ poll_count = 1

(***************************************************************************)
(* C20.  Lifetime counter: total_messages is the number of put_message     *)
(* calls made since the queue was created: it starts at 0, every put adds  *)
(* one and sets last_message_time, and no other step (get_message, clear,  *)
(* next, reset, start, stop) changes either; it never decreases.           *)
(***************************************************************************)
C20_LifetimeCounter ==
    /\ [](/\ total_messages >= epoch_puts["a"] + epoch_puts["b"]
          /\ total_messages >= Len(queue)
          /\ last_message_time = total_messages)
    /\ [][(total_messages' # total_messages \/ last_message_time' # last_message_time) =>
            /\ wpc = "process"
            /\ queue' = Append(queue, new_emails[emails_done + 1])
            /\ total_messages' = total_messages + 1
            /\ last_message_time' > last_message_time]_vars
    /\ [][Len(queue') > Len(queue) => total_messages' = total_messages + 1]_vars
    /\ [][(GetMessage \/ NextClear \/ NextAcquire \/ NextAdvance \/ ResetBody) =>
            UNCHANGED <<total_messages, last_message_time>>]_vars

\* After a reset() and a next(), the queue is empty and one message has been
\* put in this epoch; the counter stands at two.
C20_Witness ==
    /\ total_messages = 2
    /\ epoch_puts["a"] + epoch_puts["b"] = 1
    /\ queue = <<>>
    /\ Returned("next_true")

(***************************************************************************)
(* C21.  reset() returns to the initial epoch state without stopping the   *)
(* worker: when it returns the cursor is -1, the dedup set and the queue   *)
(* are empty and the processing signal is clear; it changes neither the    *)
(* worker thread nor the stop event; the next next() selects account 0;    *)
(* and a message whose id is not in the dedup set is enqueued, whatever    *)
(* was delivered before the reset.                                         *)
(***************************************************************************)
C21_ResetEpoch ==
    /\ [](Returned("reset_done") =>
            /\ current_account_index = -1
            /\ processed_email_ids = {}
            /\ queue = <<>>
            /\ ~processing_event
            /\ next_calls = 0)
    /\ [][(cpc = "reset_lock" /\ cpc' = "idle") =>
            UNCHANGED <<wpc, stop_event, live_workers, is_processing,
                        worker_lock, total_messages>>]_vars
    /\ [][(cpc = "next_body" /\ cpc' = "idle" /\ next_calls = 0
             /\ Len(enabled_accounts) >= 1) =>
            /\ current_account_index' = 0
            /\ cret' = "next_true"
            /\ processing_event']_vars
    /\ [][(wpc = "process" /\ <<wpc, emails_done>>' # <<wpc, emails_done>>
             /\ new_emails[emails_done + 1].id \notin processed_email_ids) =>
            queue' = Append(queue, new_emails[emails_done + 1])]_vars

\* A message was delivered, reset() was called (the puts of the epoch are
\* fewer than the puts of the lifetime), and the worker, alive and not
\* stopped, has enqueued a for account 0.
C21_Witness ==
    /\ total_messages = 2
    /\ epoch_puts = [id \in Ids |-> IF id = "a" THEN 1 ELSE 0]
    /\ processed_email_ids = {"a"}
    /\ queue # <<>> /\ queue[Len(queue)].id = "a"
    /\ current_account_index = 0
    /\ live_workers = 1
    /\ ~stop_event

(***************************************************************************)
(* C22.  get_last_message(): it returns when it finds the queue empty and  *)
(* leaves it empty; when no message was enqueued during the call, what it  *)
(* returns is the last message of the queue it was called on, None if that *)
(* queue was empty; the messages before it are taken and dropped; no step  *)
(* of the call changes total_messages.                                     *)
(***************************************************************************)
C22_LastMessage ==
    /\ [][(cpc = "glm" /\ cpc' = "idle") =>
            /\ queue = <<>> /\ queue' = <<>>
            /\ cret' = "last_message"
            /\ total_messages = glm_start[2] =>
                  cval' = IF glm_start[1] = <<>> THEN None
                          ELSE glm_start[1][Len(glm_start[1])]]_vars
    /\ [][(cpc = "glm" /\ Len(queue') < Len(queue)) =>
            /\ queue' = Tail(queue)
            /\ last_message' = Head(queue)
            /\ total_messages' = total_messages]_vars
    /\ [](cpc = "glm" => total_messages >= glm_start[2])

\* get_last_message(), called on a queue of two messages with no attempt
\* enqueuing meanwhile, has taken both and holds the second.
C22_Witness ==
    /\ cpc = "glm"
    /\ Len(glm_start[1]) = 2
    /\ total_messages = glm_start[2]
    /\ queue = <<>>
    /\ last_message = glm_start[1][2]
    /\ last_message # glm_start[1][1]

(***************************************************************************)
(* C23.  Account descriptors are immutable: every descriptor in            *)
(* enabled_accounts is, in every reachable state, equal to a descriptor as *)
(* it was loaded from a configuration file, its fetch_criteria and config  *)
(* maps included.                                                          *)
(***************************************************************************)
\* The descriptors as the configuration files hold them.
LoadedDescriptors == UNION { {c[i] : i \in DOMAIN c} : c \in Configs }

C23_DescriptorsImmutable ==
    \A i \in DOMAIN enabled_accounts : enabled_accounts[i] \in LoadedDescriptors

(***************************************************************************)
(* C24.  Fetcher session order: every attempt constructs a fetcher and     *)
(* calls connect on it; the calls on a fetcher come in the order connect,  *)
(* fetch_emails, mark_as_read, disconnect, each at most once; a connect    *)
(* that returned is followed by one disconnect of that fetcher before the  *)
(* attempt ends, also when fetch_emails or mark_as_read raises; no session *)
(* is open when an attempt begins, and a connect that raised has none.     *)
(***************************************************************************)
\* The place of a fetcher call in a session.
Rank(op) ==
    CASE op = "init" -> 1
      [] op = "connect" -> 2
      [] op = "fetch_emails" -> 3
      [] op = "mark_as_read" -> 4
      [] op = "disconnect" -> 5

\* The step made the call op.
Called(c, op) == \E i \in DOMAIN c : c[i].op = op

C25_MarkBatch ==
    /\ [][\A i \in DOMAIN calls' : calls'[i].op = "mark_as_read" =>
            /\ i = 1
            /\ wpc = "mark" /\ wpc' \notin {"mark", "process"}
            /\ new_emails = <<>>
            /\ MarkAsReadFlag(current_account)
            /\ calls'[i].arg # <<>>
            /\ calls'[i].arg = attempt_puts]_vars
    /\ [](wpc = "attempt" => attempt_puts = <<>>)
    /\ [][(wpc = "process" /\ MarkAsReadFlag(current_account)
             /\ <<wpc, emails_done>>' # <<wpc, emails_done>>) =>
            IF new_emails[emails_done + 1].id \in processed_email_ids
            THEN attempt_puts' = attempt_puts /\ queue' = queue
            ELSE /\ attempt_puts' = Append(attempt_puts, new_emails[emails_done + 1].id)
                 /\ queue' = Append(queue, new_emails[emails_done + 1])]_vars
    /\ [][wpc' = "mark" => (wpc = "mark" \/ (wpc = "process" /\ attempt_puts' # <<>>))]_vars

\* The batch call of an attempt that enqueued b and then a: one call with
\* both ids in that order.
C25_Witness ==
    /\ Len(calls) = 2
    /\ calls[1] = Call("mark_as_read", <<"b", "a">>, TRUE)
    /\ Len(queue) = 2
    /\ queue[1].id = "b" /\ queue[2].id = "a"

C27_MarkFailureAbsorbed ==
    /\ [][(wpc = "mark" /\ wpc' # "mark") =>
            /\ wpc' = "inc"
            /\ Len(calls') = 2
            /\ calls'[1].op = "mark_as_read"
            /\ calls'[2].op = "disconnect"
            /\ ~connected'
            /\ UNCHANGED <<queue, processed_email_ids, poll_count, total_messages,
                           is_processing, worker_lock, stop_event>>]_vars
    /\ [](wpc = "mark" =>
            /\ \A i \in DOMAIN attempt_puts : attempt_puts[i] \in processed_email_ids
            /\ poll_count < max_poll_count)
    /\ [][(wpc = "inc" /\ wpc' # "inc") =>
            /\ poll_count' = poll_count + 1
            /\ wpc' = IF poll_count + 1 < max_poll_count THEN "pwait" ELSE "while"]_vars

\* mark_as_read has raised in the first attempt of a cycle: the message of
\* the attempt is queued, its id in the dedup set, the fetcher disconnected,
\* and the attempt is about to be counted.
C27_Witness ==
    /\ wpc = "inc"
    /\ poll_count = 0
    /\ Len(calls) = 2
    /\ calls[1].op = "mark_as_read" /\ ~calls[1].ok
    /\ calls[2].op = "disconnect"
    /\ ~connected
    /\ Len(queue) = 1
    /\ queue[1].id \in processed_email_ids
    /\ calls[1].arg = <<queue[1].id>>

(***************************************************************************)
(* C29.  The dedup set outlives next(): no step of next(), whatever it     *)
(* returns, changes the dedup set; an id leaves the set only by reset(),   *)
(* which empties it.  So the set holds every id enqueued in the epoch, and *)
(* a message whose id is in it is not enqueued: not for a later account,   *)
(* not in a later pass, not after next() cleared the first copy away.      *)
(***************************************************************************)
C29_DedupOutlivesNext ==
    /\ [][(cpc \in {"next_clear", "next_lock", "next_body"} /\ cpc' # cpc) =>
            processed_email_ids' = processed_email_ids]_vars
    /\ [][~(processed_email_ids \subseteq processed_email_ids') =>
            /\ cpc = "reset_lock" /\ cpc' = "idle"
            /\ processed_email_ids' = {}]_vars
    /\ [][Len(queue') > Len(queue) =>
            /\ queue'[Len(queue')].id \notin processed_email_ids
            /\ queue'[Len(queue')].id \in processed_email_ids']_vars
    /\ [](\A id \in Ids : epoch_puts[id] >= 1 => id \in processed_email_ids)
    /\ [](\A id \in Ids : epoch_puts[id] <= 1)

\* Message a was enqueued for account 0 and cleared away by the second
\* next(); the one attempt for account 1 fetched a and b and has passed over
\* a without enqueuing it.
C29_Witness ==
    /\ Len(enabled_accounts) = 2
    /\ current_account_index = 1
    /\ next_calls = 2
    /\ wpc = "process"
    /\ poll_count = 0
    /\ max_poll_count = 1
    /\ Len(new_emails) = 2 /\ new_emails[1].id = "a" /\ new_emails[2].id = "b"
    /\ emails_done = 1
    /\ queue = <<>>
    /\ total_messages = 1
    /\ epoch_puts["a"] = 1

(***************************************************************************)
(* C30.  No deadlock between caller and worker: a next() or reset() that   *)
(* waits for the worker lock returns (the running cycle ends and releases  *)
(* the lock), and the cursor does not change while it waits; whenever the  *)
(* caller waits for the lock, the lock is free or the worker holding it    *)
(* can take a step of its own; stop() and wait_for_completion() go on      *)
(* whoever holds the lock, and stop() returns.                             *)
(***************************************************************************)
\* The caller is at "with self._worker_lock:" of next() or reset().
CallerAtLock == cpc \in {"next_lock", "reset_lock"}

C30_NoDeadlock ==
    /\ (CallerAtLock \/ cpc \in {"stop_wake", "stop_join"}) ~> (cpc = "idle")
    /\ [][(CallerAtLock /\ cpc' = cpc) =>
            current_account_index' = current_account_index]_vars
    /\ [](CallerAtLock => (worker_lock = "free" \/
                            (worker_lock = "worker" /\ ENABLED WorkerNext)))
    /\ [](cpc = "stop_wake" => ENABLED StopWake)
    /\ [](cpc = "wait_timed" => ENABLED (WaitReturnTrue \/ WaitReturnFalse))
    /\ [](cpc = "wait_none" => (is_processing \/ ENABLED WaitReturnTrue))

\* reset() waits for the lock while the worker, inside a poll cycle, is in
\* the wait between two attempts.
C30_Witness ==
    /\ cpc = "reset_lock"
    /\ worker_lock = "worker"
    /\ wpc = "pblocked"
    /\ is_processing

\* The ids of the enabled accounts, in list order.
EnabledIds == [i \in 1..Len(enabled_accounts) |-> enabled_accounts[i].id]

\* C28: under the driver of main(), when the loop has ended and stop() is
\* about to be called or has been called, every enabled account has had at
\* least one fetch attempt, the first attempts in list order.
C28_DriverCoversAccounts ==
    dpc \in {"stop", "done"} => attempted = EnabledIds

(***************************************************************************)
(* C31.  Unknown provider type: a cycle for an account whose type is not   *)
(* in FETCHER_MAPPING never enters the polling loop, so it makes no fetch  *)
(* attempt, no fetcher call and no wait, and no step taken while it runs   *)
(* enqueues a message or changes the dedup set, the cursor or the stop     *)
(* event's effect on the thread; it ends through the finally clause like   *)
(* any cycle: flag false, then signal clear, lock free and the worker back *)
(* at the top of its loop, alive, with no account in hand.  The worker     *)
(* then selects by the cursor alone: the account a later next() points to. *)
(***************************************************************************)
\* The worker is inside the cycle of an account of unknown type.
UnknownCycle ==
    wpc \in {"poll", "finally", "finally2"} /\ current_account.type \notin FETCHER_MAPPING

C31_UnknownTypeSkipped ==
    /\ [](InPollLoop => current_account.type \in FETCHER_MAPPING)
    /\ [](UnknownCycle =>
            /\ Attempts = 0 /\ poll_count = 0 /\ waits = 0 /\ fails = 0
            /\ calls = <<>> /\ ~connected
            /\ new_emails = <<>> /\ email_ids_to_mark_read = <<>>
            /\ worker_lock = "worker"
            /\ is_processing = (wpc # "finally2"))
    /\ [][UnknownCycle =>
            /\ Len(queue') <= Len(queue)
            /\ total_messages' = total_messages
            /\ processed_email_ids' = processed_email_ids
            /\ current_account_index' = current_account_index
            /\ live_workers' = live_workers
            /\ wpc' \in {"poll", "finally", "finally2", "loop"}]_vars
    /\ [][(UnknownCycle /\ wpc' = "loop") =>
            /\ wpc = "finally2"
            /\ ~is_processing' /\ ~processing_event'
            /\ worker_lock' = "free"
            /\ current_account' = NoAccount]_vars
    /\ [][(wpc = "locked" /\ wpc' = "poll") =>
            /\ current_account' = enabled_accounts[current_account_index + 1]
            /\ is_processing']_vars

\* The cycle of the pop3 account, selected by the first next(), is over but
\* for the release of the lock; no stop signal, nothing was enqueued.
C31_Witness ==
    /\ wpc = "finally2"
    /\ current_account.type = "pop3"
    /\ current_account_index = 0
    /\ Len(enabled_accounts) = 2
    /\ ~is_processing
    /\ ~stop_event
    /\ total_messages = 0
    /\ live_workers = 1

====
